---- MODULE Spec2Model ----
(***************************************************************************)
(* A model of go-cwl, a terminal dashboard that tails CloudWatch log       *)
(* groups.  The module holds several state machines that share one set of  *)
(* variables:                                                              *)
(*   SpecDisplay  the Log-Display view (DisplayLogScreen) with one stream  *)
(*                task per selected log group, the renderer and the key,   *)
(*                control and mouse handlers;                              *)
(*   SpecTTY      the raw terminal device (TTY.Open / TTY.Close / ...);    *)
(*   SpecDecoder  the rune decoder of the input task of App.Start;         *)
(*   SpecApp      the tasks of App.Start and the lock they share;          *)
(*   SpecScreens  the Loading, Selection and Display views and the edges   *)
(*                between them (ChooseLogsScreen and the App callbacks);   *)
(*   SpecFetch    one call of GetLogGroups with its fetch tasks;           *)
(*   SpecRW       the Display view again, with the steps inside the        *)
(*                critical sections of its stream tasks taken one by one.  *)
(* FairSpecDisplay and FairSpecApp add the scheduling of the goroutines.   *)
(* Each specification leaves the variables of the others unchanged.        *)
(***************************************************************************)
EXTENDS Integers, Sequences, FiniteSets, TLC

(***************************************************************************)
(* Bounds of the model.                                                    *)
(***************************************************************************)
\* capacity of one buffer: MaxEvents is 1000 in the source (part_002:309);
\* the model keeps the code and scales the number so that eviction happens
MaxEvents == 3
\* events the subscriptions deliver, all together, in a run
MaxRecv == 4
\* largest batch (len(u.Value.SessionResults)) of one session update
MaxBatch == 2
\* rows of the terminal window (tty.Size)
TermRows == 3
\* control sequences the device writes in a run
MaxOut == 3
\* runes the input task reads in a run
MaxRunes == 5
\* rows of the terminal window while the Selection view is shown
ChooseRows == 5
\* longest filter string the operator types
MaxFilter == 2
\* how far below row 0 a cursor of the Selection view is followed
MaxBelow == 1
\* profiles (aws.Config values) that GetLogGroups is called with
NumProfiles == 2
\* log groups in the answer of one profile
MaxPage == 2

Max(a, b) == IF a > b THEN a ELSE b
Min(a, b) == IF a < b THEN a ELSE b

\* the log groups the operator selected, in the order of selection
SelectedLogs == <<1, 2>>
Logs == {SelectedLogs[i] : i \in 1..Len(SelectedLogs)}

RECURSIVE SumOver(_, _)
SumOver(f, S) ==
    IF S = {} THEN 0
    ELSE LET x == CHOOSE y \in S : TRUE IN f[x] + SumOver(f, S \ {x})

(***************************************************************************)
(* State of the Display view (type DisplayLogScreen).  Go maps read their  *)
(* zero value for a missing key, so the maps are total functions that      *)
(* start at the zero value.                                                *)
(***************************************************************************)
VARIABLES
    screen,      \* a.screen: "Display" or "Selection"
    logs,        \* s.logs, the selected log groups in order
    log,         \* s.log, the foreground log group
    buffers,     \* s.buffers
    streams,     \* the keys of s.streams
    index,       \* s.index
    offset,      \* s.offset
    live,        \* s.live
    changed,     \* s.changed
    view,        \* s.view
    row,         \* s.row
    rw,          \* s.rw: 0 when free, else the log group whose task holds it
    mouse,       \* mouse reporting of the terminal, as Render leaves it
    taskPc,      \* position of each stream task
    streamState, \* each subscription: "none", "open", "errored", "closed"
    recv,        \* events received so far from each subscription
    ctxDone,     \* the context handed to Init is cancelled
    ui           \* the input task and the render loop: "run", or how they stopped

dispVars == <<screen, logs, log, buffers, streams, index, offset, live, changed,
              view, row, rw, mouse, taskPc, streamState, recv, ctxDone, ui>>

(***************************************************************************)
(* State of the terminal device (type TTY) and of the terminal itself.     *)
(***************************************************************************)
VARIABLES
    opened,      \* t.opened
    alt,         \* t.alt
    files,       \* t.in, t.out and t.r: "open", or "nil" once Close has run
    ssClosed,    \* the channel t.ss is closed
    termios,     \* the discipline of the terminal: "saved" (as NewTTY found it) or "raw"
    restores,    \* how many times the saved discipline was written back
    out,         \* the control sequences written to the terminal, in order
    ttyFault     \* a call on the device panicked

ttyVars == <<opened, alt, files, ssClosed, termios, restores, out, ttyFault>>

(***************************************************************************)
(* State of the rune decoder in the input task of App.Start.               *)
(***************************************************************************)
VARIABLES
    ctrl,        \* the local ctrl: an escape sequence is being read
    ctrlCode,    \* the local ctrlCode: the runes accumulated after ESC
    timers,      \* the sleeping goroutines that will clear ctrl, each named by
                 \* the position (in reads) of the ESC that started it
    reads,       \* the runes read so far
    delivered,   \* the events handed to the screen, in order
    inputPc      \* the input task: "read" or "done"

decVars == <<ctrl, ctrlCode, timers, reads, delivered, inputPc>>

(***************************************************************************)
(* State of App.Start: its four tasks and what they share.                 *)
(***************************************************************************)
VARIABLES
    mu,          \* a.mu is locked
    quit,        \* the local quit of Start
    cancelled,   \* cancel() of Start was called
    pc,          \* position of the tasks "main", "sig", "loader" and "input"
    inCont,      \* how the input task goes on after its Unlock
    panicking,   \* the goroutine of Start unwinds with a panic
    proc,        \* the process: "running", "exited" (Start returned or panicked
                 \* out) or "fatal" (killed by the runtime)
    ret,         \* what Start returns: "none" (not yet), "nil" or "err"
    loadErr,     \* a.ShowLoading returned an error to the loader task
    dirty        \* the dirty flag (s.changed) of the screen a.screen holds

appVars == <<mu, quit, cancelled, pc, inCont, panicking, proc, ret, loadErr, dirty>>

(***************************************************************************)
(* State of the three screens: which one a.screen holds, the Selection     *)
(* view (type ChooseLogsScreen) and the Display view that confirm creates. *)
(***************************************************************************)
VARIABLES
    active,      \* the screen a.screen holds: "Loading", "Selection" or "Display"
    load,        \* a.ShowLoading: "loading", "ok" or "failed"
    selected,    \* a.selected
    cs,          \* the ChooseLogsScreen, a record of its fields
    dsp,         \* the DisplayLogScreen made by the callback, a record as DS
    scrFault,    \* a handler or the Render of the Selection view panicked
    fresh,       \* the active screen has a frame and nothing changed it since
    rewrote      \* the last Render of the active screen wrote to the device
                 \* although nothing had changed since the frame before

scrVars == <<active, load, selected, cs, dsp, scrFault, fresh, rewrote>>

(***************************************************************************)
(* State of one call of GetLogGroups: what its fetch tasks share, and the  *)
(* locals of each task.                                                    *)
(***************************************************************************)
VARIABLES
    m,           \* the map m: the ARNs already taken
    logGroups,   \* the slice logGroups
    errs,        \* the profiles whose DescribeLogGroups failed
    fpc,         \* position of each fetch task: "call", "check", "insert",
                 \* "read", "write" or "done"
    output,      \* per task: output.LogGroups of its DescribeLogGroups call
    pos,         \* per task: the position of its range loop in output
    hdr,         \* per task: the slice that append read and has not yet
                 \* stored back
    fetched      \* what GetLogGroups returned: st is "none", "ok", "error"
                 \* or "fatal" (killed by the runtime), list is the result

fetchVars == <<m, logGroups, errs, fpc, output, pos, hdr, fetched>>

(***************************************************************************)
(* State of the Display view that shows only when the steps inside the     *)
(* critical sections of its stream tasks are followed one by one.          *)
(***************************************************************************)
VARIABLES
    results,     \* per log group: u.Value.SessionResults of the session
                 \* update that its task has received and is appending
    frame        \* the last frame of the Display view: the events of the
                 \* buffer that Render read, and whether only a part of a
                 \* session update was appended to it at that moment

rwVars == <<results, frame>>

vars == <<dispVars, ttyVars, decVars, appVars, scrVars, fetchVars, rwVars>>

\* what the Display view leaves alone
notDisp == <<ttyVars, decVars, appVars, scrVars, fetchVars, rwVars>>
\* what the device leaves alone
notTTY == <<dispVars, decVars, appVars, scrVars, fetchVars, rwVars>>
\* what the decoder leaves alone
notDec == <<dispVars, ttyVars, appVars, scrVars, fetchVars, rwVars>>
\* what the tasks of Start leave alone, apart from the device
notApp == <<dispVars, decVars, scrVars, fetchVars, rwVars>>
\* what the three screens leave alone
notScr == <<dispVars, ttyVars, decVars, appVars, fetchVars, rwVars>>
\* what GetLogGroups leaves alone
notFetch == <<dispVars, ttyVars, decVars, appVars, scrVars, rwVars>>
\* what the Display view leaves alone when its critical sections are followed
notRW == <<ttyVars, decVars, appVars, scrVars, fetchVars>>

viewModeStream == 0
viewModeOpenAlt == 1
viewModeAlt == 2
viewModeCloseAlt == 3

(***************************************************************************)
(* The fields a handler of the Display view reads and writes, as a record. *)
(***************************************************************************)
DS ==
    [logs |-> logs, log |-> log, buffers |-> buffers, index |-> index, offset |-> offset,
     live |-> live, changed |-> changed, view |-> view, row |-> row,
     mouse |-> mouse]

SetDS(d) ==
    /\ logs' = d.logs
    /\ log' = d.log
    /\ buffers' = d.buffers
    /\ index' = d.index
    /\ offset' = d.offset
    /\ live' = d.live
    /\ changed' = d.changed
    /\ view' = d.view
    /\ row' = d.row
    /\ mouse' = d.mouse

\* len(s.buffers[s.log.ARN()])
BufLen(d) == Len(d.buffers[d.log])

(***************************************************************************)
(* The stream task's append: every event of the batch is appended, then    *)
(* the buffer is cut to its last MaxEvents events.                         *)
(***************************************************************************)
\* AppendBatch with the cut taken at the wrong end: the oldest events are kept
AppendBatchKeepOldest(buf, batch) ==
    LET all == buf \o batch
    IN  IF Len(all) > MaxEvents THEN SubSeq(all, 1, MaxEvents) ELSE all

AppendBatch(buf, batch) ==
    LET all == buf \o batch
    IN  IF Len(all) > MaxEvents
        THEN SubSeq(all, Len(all) - MaxEvents + 1, Len(all))
        ELSE all

\* the next k events of log group l, named by their sequence numbers
Batch(l, k) == [i \in 1..k |-> recv[l] + i]

cursorUp(d, move) ==
    LET lastidx == BufLen(d) - 1
        i0 == d.index[d.log] - move
        idx == IF i0 < 0 THEN 0 ELSE IF i0 > lastidx THEN lastidx ELSE i0
        off == d.offset[d.log]
        noff == IF idx < off THEN idx ELSE IF idx > lastidx THEN lastidx ELSE off
    IN  IF lastidx < 0 THEN d
        ELSE [d EXCEPT !.live[d.log] = FALSE,
                       !.index[d.log] = idx,
                       !.offset[d.log] = noff,
                       !.changed[d.log] = TRUE]

\* cursorDown that turns live mode on again when the cursor reaches the
\* newest event
cursorDownRelive(d, move) ==
    LET lastidx == BufLen(d) - 1
        i0 == d.index[d.log] + move
        idx == IF i0 > lastidx THEN lastidx ELSE IF i0 < 0 THEN 0 ELSE i0
        off == d.offset[d.log]
        b0 == d.row + off - 2
        botidx == IF b0 > lastidx THEN lastidx ELSE b0
        o1 == IF idx > botidx THEN off + (idx - botidx) ELSE off
        noff == IF o1 > lastidx THEN lastidx ELSE IF o1 < 0 THEN 0 ELSE o1
    IN  IF lastidx < 0 THEN d
        ELSE [d EXCEPT !.live[d.log] = (idx = lastidx),
                       !.index[d.log] = idx,
                       !.offset[d.log] = noff,
                       !.changed[d.log] = TRUE]

cursorDown(d, move) ==
    LET lastidx == BufLen(d) - 1
        i0 == d.index[d.log] + move
        idx == IF i0 > lastidx THEN lastidx ELSE IF i0 < 0 THEN 0 ELSE i0
        off == d.offset[d.log]
        b0 == d.row + off - 2
        botidx == IF b0 > lastidx THEN lastidx ELSE b0
        o1 == IF idx > botidx THEN off + (idx - botidx) ELSE off
        noff == IF o1 > lastidx THEN lastidx ELSE IF o1 < 0 THEN 0 ELSE o1
    IN  IF lastidx < 0 THEN d
        ELSE [d EXCEPT !.live[d.log] = FALSE,
                       !.index[d.log] = idx,
                       !.offset[d.log] = noff,
                       !.changed[d.log] = TRUE]

\* slices.Index(s.logs, s.log), 0-based
LogPos(d) == (CHOOSE i \in 1..Len(d.logs) : d.logs[i] = d.log) - 1

\* next without the wrap: the foreground stays on the last log group
nextNoWrap(d) ==
    LET n0 == LogPos(d) + 1
        n == IF n0 >= Len(d.logs) THEN Len(d.logs) - 1 ELSE n0
        l == d.logs[n + 1]
    IN  [d EXCEPT !.log = l, !.changed[l] = TRUE]

next(d) ==
    LET n0 == LogPos(d) + 1
        n == IF n0 >= Len(d.logs) THEN 0 ELSE n0
        l == d.logs[n + 1]
    IN  [d EXCEPT !.log = l, !.changed[l] = TRUE]

prev(d) ==
    LET n0 == LogPos(d) - 1
        n == IF n0 < 0 THEN Len(d.logs) - 1 ELSE n0
        l == d.logs[n + 1]
    IN  [d EXCEPT !.log = l, !.changed[l] = TRUE]

viewMode(d) ==
    LET v == d.view[d.log]
        nv == IF v = viewModeStream THEN viewModeOpenAlt
              ELSE IF v = viewModeAlt THEN viewModeCloseAlt
              ELSE v
    IN  IF BufLen(d) = 0 THEN d
        ELSE [d EXCEPT !.live[d.log] = FALSE,
                       !.view[d.log] = nv,
                       !.changed[d.log] = TRUE]

handleViewMode(d) ==
    LET v == d.view[d.log]
    IN  IF BufLen(d) = 0 THEN d
        ELSE IF v = viewModeOpenAlt
             THEN [d EXCEPT !.view[d.log] = viewModeAlt, !.mouse = FALSE]
        ELSE IF v = viewModeCloseAlt
             THEN [d EXCEPT !.view[d.log] = viewModeStream, !.mouse = TRUE]
        ELSE d

(***************************************************************************)
(* DisplayLogScreen.Render once s.changed is cleared and s.rw is read-     *)
(* locked.  The result holds the new state and whether Render faulted on   *)
(* an index or a slice out of range.                                       *)
(***************************************************************************)
RenderBody(d0) ==
    LET d == handleViewMode(d0)
        l == d.log
        lastidx == BufLen(d) - 1
        rows == TermRows - 2
        pinned == [d EXCEPT !.row = TermRows,
                            !.offset[l] = Max(0, lastidx - rows),
                            !.index[l] = lastidx]
        ds == IF d.live[l] THEN pinned ELSE [d EXCEPT !.row = TermRows]
        off == ds.offset[l]
        lim0 == off + rows + 1
        limit == IF lim0 > lastidx THEN lastidx + 1 ELSE lim0
    IN  IF BufLen(d) = 0 THEN [d |-> d, fault |-> FALSE]
        ELSE IF d.view[l] = viewModeAlt
             THEN [d |-> d,
                   fault |-> ~(0 <= d.index[l] /\ d.index[l] <= lastidx)]
        ELSE [d |-> ds,
              fault |-> ~(0 <= off /\ off <= limit /\ limit <= lastidx + 1)]

(***************************************************************************)
(* The three screens.  The catalog that the loader delivers, and the       *)
(* Selection view (type ChooseLogsScreen) as a record of its fields with   *)
(* its methods as functions of that record.  A method returns the new      *)
(* record, whether it panicked and whether it called the callback.         *)
(***************************************************************************)
\* a.logs once GetLogGroups has returned: three log groups, in catalog order
Catalog == <<1, 2, 3>>
\* LogGroup.ARN() of each log group of the catalog, as a sequence of runes
ARN == << <<"a", "b">>, <<"b", "a">>, <<"b", "b">> >>

CR == "CR"
DEL == "DEL"
\* unicode.IsPrint, on the runes the operator types
IsPrint(r) == r \notin {CR, DEL}

\* the limit a new ChooseLogsScreen starts with
DefaultLimit == 10

\* strings.Contains(arn, f)
Contains(arn, f) ==
    \E i \in 0..(Len(arn) - Len(f)) : SubSeq(arn, i + 1, i + Len(f)) = f

NewChooseLogsScreen(lg, sel) ==
    [logs |-> lg, selected |-> sel, index |-> 0, offset |-> 0,
     limit |-> DefaultLimit, filter |-> <<>>, filtered |-> lg, mode |-> 0,
     changed |-> TRUE]

\* no Selection view: a.screen holds another screen
NoChoose == NewChooseLogsScreen(<<>>, <<>>)

\* no Display view, and the zero value of a DisplayLogScreen with its maps made
DisplayZero ==
    [logs |-> <<>>, log |-> 0,
     buffers |-> [g \in 1..Len(Catalog) |-> <<>>],
     index |-> [g \in 1..Len(Catalog) |-> 0],
     offset |-> [g \in 1..Len(Catalog) |-> 0],
     live |-> [g \in 1..Len(Catalog) |-> FALSE],
     changed |-> [g \in 1..Len(Catalog) |-> FALSE],
     view |-> [g \in 1..Len(Catalog) |-> viewModeStream],
     row |-> 0, mouse |-> TRUE]

\* NewDisplayLogScreen with the last of the session list in the foreground
NewDisplayLogScreenLast(lg) ==
    [DisplayZero EXCEPT !.logs = lg, !.log = lg[Len(lg)]]

NewDisplayLogScreen(lg) ==
    [DisplayZero EXCEPT !.logs = lg, !.log = lg[1]]

Ok(c) == [c |-> c, fault |-> FALSE, confirm |-> FALSE]
Panic(c) == [c |-> c, fault |-> TRUE, confirm |-> FALSE]
Confirm(c) == [c |-> c, fault |-> FALSE, confirm |-> TRUE]

filterLogs(c) ==
    IF c.filter = <<>>
    THEN [c EXCEPT !.filtered = c.logs, !.index = 0, !.offset = 0]
    ELSE [c EXCEPT !.filtered = SelectSeq(c.logs, LAMBDA g : Contains(ARN[g], c.filter)),
                   !.index = 0, !.offset = 0]

down(c) ==
    LET i == c.index + 1
    IN  IF i >= Len(c.filtered) THEN [c EXCEPT !.index = 0, !.offset = 0]
        ELSE IF i >= c.offset + c.limit
             THEN [c EXCEPT !.index = i, !.offset = c.offset + 1]
        ELSE [c EXCEPT !.index = i]

up(c) ==
    IF c.index = 0
    THEN [c EXCEPT !.index = Len(c.filtered) - 1,
                   !.offset = Len(c.filtered) - c.limit]
    ELSE LET i == c.index - 1
         IN  [c EXCEPT !.index = i,
                       !.offset = IF i < c.offset THEN c.offset - 1 ELSE c.offset]

\* ChooseLogsScreen.next
chooseNext(c) ==
    LET nextOffset == c.offset + c.limit + 1
    IN  IF Len(c.filtered) - 1 <= nextOffset THEN c
        ELSE [c EXCEPT !.offset = nextOffset, !.index = nextOffset]

\* ChooseLogsScreen.prev
choosePrev(c) ==
    LET p0 == c.offset - c.limit
        prevOffset == IF p0 < 0 THEN 0 ELSE p0
    IN  [c EXCEPT !.offset = prevOffset, !.index = prevOffset]

\* s.filtered[s.index] is in range
InFiltered(c) == 0 <= c.index /\ c.index < Len(c.filtered)

\* the space key: the highlighted log group leaves or joins s.selected
toggle(c) ==
    IF ~InFiltered(c) THEN Panic(c)
    ELSE LET g == c.filtered[c.index + 1]
             contains == \E i \in 1..Len(c.selected) : ARN[c.selected[i]] = ARN[g]
         IN  IF contains
             THEN Ok([c EXCEPT !.selected = SelectSeq(c.selected,
                                                LAMBDA x : ARN[x] # ARN[g])])
             ELSE Ok([c EXCEPT !.selected = Append(c.selected, g)])

\* the Enter key of ChooseLogsScreen.HandleInput calls the callback
confirmsAlways(c) == TRUE

confirms(c) == Len(c.selected) # 0

\* ChooseLogsScreen.HandleInput
chooseInput(c0, r) ==
    LET c == [c0 EXCEPT !.changed = TRUE]
    IN  IF c.mode = 1
        THEN CASE r = DEL ->
                    Ok(IF Len(c.filter) > 0
                       THEN [c EXCEPT !.filter = SubSeq(c.filter, 1, Len(c.filter) - 1)]
                       ELSE c)
               [] r = CR -> Ok(filterLogs([c EXCEPT !.mode = 0]))
               [] OTHER -> Ok(IF IsPrint(r)
                              THEN [c EXCEPT !.filter = Append(c.filter, r)]
                              ELSE c)
        ELSE CASE r = "j" -> Ok(down(c))
               [] r = "k" -> Ok(up(c))
               [] r = "l" -> Ok(chooseNext(c))
               [] r = "h" -> Ok(choosePrev(c))
               [] r = " " -> toggle(c)
               [] r = "/" -> Ok([c EXCEPT !.mode = 1, !.filter = <<>>])
               [] r = CR -> IF confirms(c) THEN Confirm(c) ELSE Ok(c)
               [] r = "r" -> Ok(filterLogs([c EXCEPT !.filter = <<>>]))
               [] OTHER -> Ok(c)

\* ChooseLogsScreen.HandleCtrl
chooseCtrl(c0, code) ==
    LET c == [c0 EXCEPT !.changed = TRUE]
    IN  CASE code = "CursorUp" -> Ok(up(c))
          [] code = "CursorDown" -> Ok(down(c))
          [] OTHER -> Ok(c)

\* ChooseLogsScreen.HandleMouse
chooseMouse(c, code, y) ==
    LET clickidx == c.offset + y - 4
        eq == clickidx = c.index
        c1 == [c EXCEPT !.changed = TRUE,
                        !.index = IF clickidx < 0 THEN 0 ELSE clickidx]
    IN  IF code # "LeftClick" \/ y < 3 THEN Ok(c)
        ELSE IF eq THEN chooseInput(c1, " ")
        ELSE Ok(c1)

\* ChooseLogsScreen.Render: the window is cut to the rows of the terminal
chooseRender(c) ==
    LET rows == ChooseRows - 3
        c1 == [c EXCEPT !.changed = FALSE, !.limit = rows]
        rest == Len(c.filtered) - c.offset
    IN  IF ~c.changed THEN Ok(c)
        ELSE IF c.offset < 0 \/ c.offset > Len(c.filtered) THEN Panic(c1)
        ELSE Ok([c1 EXCEPT !.limit = IF rest < rows THEN rest ELSE rows])

(***************************************************************************)
(* GetLogGroups.  A log group is the pair of its account id and its name,  *)
(* which stands for its ARN as well.                                       *)
(***************************************************************************)
Profiles == 1..NumProfiles
Groups == {<<1, 1>>, <<1, 2>>, <<2, 1>>}

\* what one profile can answer: up to MaxPage different log groups
Pages ==
    {pg \in UNION {[1..n -> Groups] : n \in 0..MaxPage} :
        \A i, j \in 1..Len(pg) : i # j => pg[i] # pg[j]}

\* the less function given to sort.Slice: account id, then name
Less(a, b) == IF a[1] # b[1] THEN a[1] < b[1] ELSE a[2] < b[2]

RECURSIVE SortSlice(_)
SortSlice(s) ==
    IF s = <<>> THEN <<>>
    ELSE LET i == CHOOSE k \in 1..Len(s) : \A j \in 1..Len(s) : ~Less(s[j], s[k])
         IN  <<s[i]>> \o SortSlice(SubSeq(s, 1, i - 1) \o SubSeq(s, i + 1, Len(s)))

Init ==
    \* NewDisplayLogScreen (part_002:328-343)
    /\ screen = "Display"
    /\ logs = SelectedLogs
    /\ log = SelectedLogs[1]
    /\ buffers = [l \in Logs |-> <<>>]
    /\ streams = {}
    /\ index = [l \in Logs |-> 0]
    /\ offset = [l \in Logs |-> 0]
    /\ live = [l \in Logs |-> FALSE]
    /\ changed = [l \in Logs |-> FALSE]
    /\ view = [l \in Logs |-> viewModeStream]
    /\ row = 0
    /\ rw = 0
    /\ mouse = TRUE
    /\ taskPc = [l \in Logs |-> "init"]
    /\ streamState = [l \in Logs |-> "none"]
    /\ recv = [l \in Logs |-> 0]
    /\ ctxDone = FALSE
    /\ ui = "run"
    \* NewTTY (part_001:37-66)
    /\ opened = FALSE
    /\ alt = FALSE
    /\ files = "open"
    /\ ssClosed = FALSE
    /\ termios = "saved"
    /\ restores = 0
    /\ out = <<>>
    /\ ttyFault = FALSE
    \* locals of the input task (app.go:139-141)
    /\ ctrl = FALSE
    /\ ctrlCode = <<>>
    /\ timers = {}
    /\ reads = <<>>
    /\ delivered = <<>>
    /\ inputPc = "read"
    \* App.Start before its first statement (app.go:98-105)
    /\ mu = FALSE
    /\ quit = FALSE
    /\ cancelled = FALSE
    /\ pc = [main |-> "start", sig |-> "idle", loader |-> "idle", input |-> "idle"]
    /\ inCont = "continue"
    /\ panicking = FALSE
    /\ proc = "running"
    /\ ret = "none"
    /\ loadErr = FALSE
    /\ dirty = FALSE
    \* NewApp (app.go:30-40): the Loading view, no catalog, nothing selected
    /\ active = "Loading"
    /\ load = "loading"
    /\ selected = <<>>
    /\ cs = NoChoose
    /\ dsp = DisplayZero
    /\ scrFault = FALSE
    /\ fresh = FALSE
    /\ rewrote = FALSE
    \* GetLogGroups before its tasks have called anything (config.go:173-182)
    /\ m = {}
    /\ logGroups = <<>>
    /\ errs = {}
    /\ fpc = [p \in Profiles |-> "call"]
    /\ output = [p \in Profiles |-> <<>>]
    /\ pos = [p \in Profiles |-> 1]
    /\ hdr = [p \in Profiles |-> <<>>]
    /\ fetched = [st |-> "none", list |-> <<>>]
    \* no session update received, no frame painted
    /\ results = [l \in Logs |-> <<>>]
    /\ frame = [events |-> <<>>, partial |-> FALSE]

\* the input task and the render loop serve the Display view
UIRuns == screen = "Display" /\ ui = "run" /\ ~ctxDone

Render ==
    /\ UNCHANGED notDisp
    /\ UIRuns
    /\ IF ~changed[log]
       THEN UNCHANGED dispVars
       ELSE IF rw # 0
       THEN /\ changed' = [changed EXCEPT ![log] = FALSE]
            /\ ui' = "blockedRender"
            /\ UNCHANGED <<screen, logs, log, buffers, streams, index, offset, live,
                           view, row, rw, mouse, taskPc, streamState, recv, ctxDone>>
       ELSE LET r == RenderBody([DS EXCEPT !.changed[log] = FALSE])
            IN  /\ SetDS(r.d)
                /\ ui' = IF r.fault THEN "panicRender" ELSE "run"
                /\ UNCHANGED <<screen, streams, rw, taskPc, streamState,
                               recv, ctxDone>>

\* the handler found s.rw held and waits for it, holding the app lock
HandlerBlocks ==
    /\ UNCHANGED notDisp
    /\ UIRuns
    /\ rw # 0
    /\ ui' = "blockedInput"
    /\ UNCHANGED <<screen, logs, log, buffers, streams, index, offset, live, changed,
                   view, row, rw, mouse, taskPc, streamState, recv, ctxDone>>

Keys == {"j", "k", "J", "K", "l", "h", ",", " ", "x"}

KeyEffect(d, r) ==
    CASE r = "j" -> cursorDown(d, 1)
      [] r = "k" -> cursorUp(d, 1)
      [] r = "J" -> cursorDown(d, d.row - 2)
      [] r = "K" -> cursorUp(d, d.row - 2)
      [] r = "l" -> next(d)
      [] r = "h" -> prev(d)
      [] r = "," -> IF BufLen(d) = 0 THEN d
                    ELSE [d EXCEPT !.live[d.log] = ~d.live[d.log]]
      [] r = " " -> viewMode(d)
      [] OTHER -> d

HandleInput(r) ==
    /\ UNCHANGED notDisp
    /\ UIRuns
    /\ rw = 0
    /\ SetDS(KeyEffect([DS EXCEPT !.changed[log] = TRUE], r))
    /\ UNCHANGED <<screen, streams, rw, taskPc, streamState, recv, ctxDone, ui>>

\* rune 127: every stream of s.streams is closed and s.back shows the Selection view
HandleBack ==
    /\ UNCHANGED notDisp
    /\ UIRuns
    /\ rw = 0
    /\ changed' = [changed EXCEPT ![log] = TRUE]
    /\ streamState' = [l \in Logs |-> IF l \in streams THEN "closed" ELSE streamState[l]]
    /\ screen' = "Selection"
    /\ UNCHANGED <<logs, log, buffers, streams, index, offset, live, view, row, rw,
                   mouse, taskPc, recv, ctxDone, ui>>

Ctrls == {"CursorUp", "CursorDown", "CursorRight", "CursorLeft", "other"}

CtrlEffect(d, c) ==
    CASE c = "CursorUp" -> cursorUp(d, 1)
      [] c = "CursorDown" -> cursorDown(d, 1)
      [] c = "CursorRight" -> next(d)
      [] c = "CursorLeft" -> prev(d)
      [] OTHER -> d

HandleCtrl(c) ==
    /\ UNCHANGED notDisp
    /\ UIRuns
    /\ rw = 0
    /\ SetDS(CtrlEffect(DS, c))
    /\ UNCHANGED <<screen, streams, rw, taskPc, streamState, recv, ctxDone, ui>>

MouseCodes == {"LeftClick", "WheelUp", "WheelDown", "other"}

MouseEffect(d, code, y) ==
    LET l == d.log
        lastidx == BufLen(d) - 1
        c0 == d.offset[l] + y - 2
        c1 == IF c0 > lastidx THEN lastidx ELSE c0
        clickidx == IF c1 < 0 THEN 0 ELSE c1
        curidx == d.index[l]
        d1 == [d EXCEPT !.index[l] = clickidx, !.changed[l] = TRUE]
    IN  CASE code = "LeftClick" ->
               IF y < 2 \/ BufLen(d) = 0 THEN d
               ELSE IF clickidx = curidx THEN viewMode(d1) ELSE d1
          [] code = "WheelUp" -> cursorUp(d, 1)
          [] code = "WheelDown" -> cursorDown(d, 1)
          [] OTHER -> d

HandleMouse(code, y) ==
    /\ UNCHANGED notDisp
    /\ UIRuns
    /\ rw = 0
    /\ SetDS(MouseEffect(DS, code, y))
    /\ UNCHANGED <<screen, streams, rw, taskPc, streamState, recv, ctxDone, ui>>

(***************************************************************************)
(* The stream task of log group l (the goroutine of DisplayLogScreen.Init).*)
(***************************************************************************)
\* the task locks s.rw, opens the subscription and registers the session
TaskStart(l) ==
    /\ UNCHANGED notDisp
    /\ taskPc[l] = "init"
    /\ rw = 0
    /\ buffers' = [buffers EXCEPT ![l] = <<>>]
    /\ streams' = streams \cup {l}
    /\ streamState' = [streamState EXCEPT ![l] = "open"]
    /\ index' = [index EXCEPT ![l] = -1]
    /\ offset' = [offset EXCEPT ![l] = 0]
    /\ live' = [live EXCEPT ![l] = TRUE]
    /\ changed' = [changed EXCEPT ![l] = TRUE]
    /\ taskPc' = [taskPc EXCEPT ![l] = "loop"]
    /\ UNCHANGED <<screen, logs, log, view, row, rw, mouse, recv, ctxDone, ui>>

\* log.Stream fails: the task returns between s.rw.Lock and s.rw.Unlock
TaskStartFails(l) ==
    /\ UNCHANGED notDisp
    /\ taskPc[l] = "init"
    /\ rw = 0
    /\ buffers' = [buffers EXCEPT ![l] = <<>>]
    /\ rw' = l
    /\ taskPc' = [taskPc EXCEPT ![l] = "failed"]
    /\ UNCHANGED <<screen, logs, log, streams, index, offset, live, changed, view, row,
                   mouse, streamState, recv, ctxDone, ui>>

\* a session update with k events is received and appended under s.rw
TaskAppend(l, k) ==
    /\ UNCHANGED notDisp
    /\ taskPc[l] = "loop"
    /\ streamState[l] = "open"
    /\ rw = 0
    /\ SumOver(recv, Logs) + k <= MaxRecv
    /\ changed' = [changed EXCEPT ![l] = TRUE]
    /\ buffers' = [buffers EXCEPT ![l] = AppendBatch(buffers[l], Batch(l, k))]
    /\ recv' = [recv EXCEPT ![l] = recv[l] + k]
    /\ UNCHANGED <<screen, logs, log, streams, index, offset, live, view, row, rw,
                   mouse, taskPc, streamState, ctxDone, ui>>

\* the received value is no session update, or an update without results, or
\* the zero value of an events channel that was closed: the loop continues
TaskSkip(l) ==
    /\ UNCHANGED notDisp
    /\ taskPc[l] = "loop"
    /\ UNCHANGED dispVars

\* the select takes ctx.Done: the task returns and its deferred call closes the stream
TaskCancelled(l) ==
    /\ UNCHANGED notDisp
    /\ taskPc[l] = "loop"
    /\ ctxDone
    /\ taskPc' = [taskPc EXCEPT ![l] = "done"]
    /\ streamState' = [streamState EXCEPT ![l] = "closed"]
    /\ UNCHANGED <<screen, logs, log, buffers, streams, index, offset, live, changed,
                   view, row, rw, mouse, recv, ctxDone, ui>>

\* the subscription of l fails while it is read
StreamError(l) ==
    /\ UNCHANGED notDisp
    /\ streamState[l] = "open"
    /\ streamState' = [streamState EXCEPT ![l] = "errored"]
    /\ UNCHANGED <<screen, logs, log, buffers, streams, index, offset, live, changed,
                   view, row, rw, mouse, taskPc, recv, ctxDone, ui>>

\* the context of App.Start is cancelled
Cancel ==
    /\ UNCHANGED notDisp
    /\ ~ctxDone
    /\ ctxDone' = TRUE
    /\ UNCHANGED <<screen, logs, log, buffers, streams, index, offset, live, changed,
                   view, row, rw, mouse, taskPc, streamState, recv, ui>>

NextDisplay ==
    \/ Render
    \/ HandlerBlocks
    \/ \E r \in Keys : HandleInput(r)
    \/ HandleBack
    \/ \E c \in Ctrls : HandleCtrl(c)
    \/ \E code \in MouseCodes, y \in 1..TermRows : HandleMouse(code, y)
    \/ \E l \in Logs : TaskStart(l)
    \/ \E l \in Logs : TaskStartFails(l)
    \/ \E l \in Logs, k \in 1..MaxBatch : TaskAppend(l, k)
    \/ \E l \in Logs : TaskSkip(l)
    \/ \E l \in Logs : TaskCancelled(l)
    \/ \E l \in Logs : StreamError(l)
    \/ Cancel

SpecDisplay == Init /\ [][NextDisplay]_vars

\* the tasks of Init are scheduled: a task that can take a step takes it
FairSpecDisplay ==
    /\ SpecDisplay
    /\ \A l \in Logs : WF_vars(TaskStart(l) \/ TaskStartFails(l))
    /\ \A l \in Logs : WF_vars(TaskCancelled(l))

(***************************************************************************)
(* The Display view with the critical sections of its stream tasks taken   *)
(* step by step: s.rw is held from s.rw.Lock to s.rw.Unlock, and Render    *)
(* waits at s.rw.RLock while a task holds it.  The handlers of the view    *)
(* do not write the buffers and are left to SpecDisplay.                   *)
(***************************************************************************)
\* s.rw.Lock() of a new task, and the empty buffer of its log group
TaskLocks(l) ==
    /\ UNCHANGED notRW
    /\ taskPc[l] = "init"
    /\ rw = 0
    /\ rw' = l
    /\ buffers' = [buffers EXCEPT ![l] = <<>>]
    /\ taskPc' = [taskPc EXCEPT ![l] = "opening"]
    /\ UNCHANGED <<screen, logs, log, streams, index, offset, live, changed, view, row,
                   mouse, streamState, recv, ctxDone, ui, rwVars>>

\* log.Stream(ctx) returns to the task, which holds s.rw: the session is
\* registered and the lock released, or the task returns with the lock
TaskOpens(l, ok) ==
    /\ UNCHANGED notRW
    /\ taskPc[l] = "opening"
    /\ IF ok
       THEN /\ streams' = streams \cup {l}
            /\ streamState' = [streamState EXCEPT ![l] = "open"]
            /\ index' = [index EXCEPT ![l] = -1]
            /\ offset' = [offset EXCEPT ![l] = 0]
            /\ live' = [live EXCEPT ![l] = TRUE]
            /\ changed' = [changed EXCEPT ![l] = TRUE]
            /\ rw' = 0
            /\ taskPc' = [taskPc EXCEPT ![l] = "loop"]
       ELSE /\ taskPc' = [taskPc EXCEPT ![l] = "failed"]
            /\ UNCHANGED <<streams, streamState, index, offset, live, changed, rw>>
    /\ UNCHANGED <<screen, logs, log, buffers, view, row, mouse, recv, ctxDone, ui,
                   rwVars>>

\* the select of the loop receives a session update with k events
TaskReceives(l, k) ==
    /\ UNCHANGED notRW
    /\ taskPc[l] = "loop"
    /\ SumOver(recv, Logs) + k <= MaxRecv
    /\ results' = [results EXCEPT ![l] = Batch(l, k)]
    /\ recv' = [recv EXCEPT ![l] = recv[l] + k]
    /\ taskPc' = [taskPc EXCEPT ![l] = "locking"]
    /\ UNCHANGED <<screen, logs, log, buffers, streams, index, offset, live, changed,
                   view, row, rw, mouse, streamState, ctxDone, ui, frame>>

\* s.rw.Lock() before the append, and the dirty flag
TaskLocksBatch(l) ==
    /\ UNCHANGED notRW
    /\ taskPc[l] = "locking"
    /\ rw = 0
    /\ rw' = l
    /\ changed' = [changed EXCEPT ![l] = TRUE]
    /\ taskPc' = [taskPc EXCEPT ![l] = "append"]
    /\ UNCHANGED <<screen, logs, log, buffers, streams, index, offset, live, view, row,
                   mouse, streamState, recv, ctxDone, ui, rwVars>>

\* how many rounds the range loop over the session update has made: the
\* events of the update that are in the buffer
Appended(l) ==
    Cardinality({i \in 1..Len(results[l]) :
                    \E j \in 1..Len(buffers[l]) : buffers[l][j] = results[l][i]})

\* one round of the range loop: one event is appended
TaskAppendsOne(l) ==
    /\ UNCHANGED notRW
    /\ taskPc[l] = "append"
    /\ Appended(l) < Len(results[l])
    /\ buffers' = [buffers EXCEPT ![l] = Append(buffers[l], results[l][Appended(l) + 1])]
    /\ UNCHANGED <<screen, logs, log, streams, index, offset, live, changed, view, row,
                   rw, mouse, taskPc, streamState, recv, ctxDone, ui, rwVars>>

\* the buffer is cut to its last MaxEvents events and s.rw is released
TaskEvicts(l) ==
    /\ UNCHANGED notRW
    /\ taskPc[l] = "append"
    /\ Appended(l) = Len(results[l])
    /\ buffers' = [buffers EXCEPT ![l] = AppendBatch(buffers[l], <<>>)]
    /\ results' = [results EXCEPT ![l] = <<>>]
    /\ rw' = 0
    /\ taskPc' = [taskPc EXCEPT ![l] = "loop"]
    /\ UNCHANGED <<screen, logs, log, streams, index, offset, live, changed, view, row,
                   mouse, streamState, recv, ctxDone, ui, frame>>

\* Render tests and clears the dirty flag, before it takes s.rw
RenderTest ==
    /\ UNCHANGED notRW
    /\ ui = "run"
    /\ changed[log]
    /\ changed' = [changed EXCEPT ![log] = FALSE]
    /\ ui' = "blockedRender"
    /\ UNCHANGED <<screen, logs, log, buffers, streams, index, offset, live, view, row,
                   rw, mouse, taskPc, streamState, recv, ctxDone, rwVars>>

\* s.rw.RLock() returns once no task holds the lock
RLockAlways == TRUE

RLock == rw = 0

\* Render, from s.rw.RLock() to its end
RenderPaint ==
    /\ UNCHANGED notRW
    /\ ui = "blockedRender"
    /\ RLock
    /\ LET r == RenderBody(DS)
       IN  /\ SetDS(r.d)
           /\ ui' = IF r.fault THEN "panicRender" ELSE "run"
    /\ frame' = [events |-> buffers[log],
                  partial |-> 0 < Appended(log) /\ Appended(log) < Len(results[log])]
    /\ UNCHANGED <<screen, streams, rw, taskPc, streamState, recv, ctxDone, results>>

NextRW ==
    \/ \E l \in Logs : TaskLocks(l)
    \/ \E l \in Logs, ok \in BOOLEAN : TaskOpens(l, ok)
    \/ \E l \in Logs, k \in 1..MaxBatch : TaskReceives(l, k)
    \/ \E l \in Logs : TaskLocksBatch(l)
    \/ \E l \in Logs : TaskAppendsOne(l)
    \/ \E l \in Logs : TaskEvicts(l)
    \/ RenderTest
    \/ RenderPaint

SpecRW == Init /\ [][NextRW]_vars

(***************************************************************************)
(* The terminal device.  The fields of a TTY and the terminal it drives,   *)
(* as a record, and the methods as functions of that record.               *)
(***************************************************************************)
TS ==
    [opened |-> opened, alt |-> alt, files |-> files, ssClosed |-> ssClosed,
     termios |-> termios, restores |-> restores, out |-> out, ttyFault |-> ttyFault]

SetTS(t) ==
    /\ opened' = t.opened
    /\ alt' = t.alt
    /\ files' = t.files
    /\ ssClosed' = t.ssClosed
    /\ termios' = t.termios
    /\ restores' = t.restores
    /\ out' = t.out
    /\ ttyFault' = t.ttyFault

\* t.out.WriteString(seq) succeeds unless the file is nil
CanWrite(t) == t.files = "open"
Written(t, seq) == [t EXCEPT !.out = Append(t.out, seq)]

\* TTY.Close: the ioctl reaches the terminal only while t.in is a file (the
\* descriptor of a nil file is -1); close(t.ss) panics on a closed channel
ttyClose(t) ==
    IF ~t.opened THEN t
    ELSE LET t1 == IF t.files = "open"
                   THEN [t EXCEPT !.termios = "saved", !.restores = t.restores + 1]
                   ELSE t
         IN  IF t.ssClosed
             THEN [t1 EXCEPT !.ttyFault = TRUE]
             ELSE [t1 EXCEPT !.ssClosed = TRUE, !.files = "nil"]

OpenOutcomes == {"ok", "ioctl fails", "SetNonblock fails"}

\* TTY.Open
ttyOpen(t, outcome) ==
    IF t.opened THEN t
    ELSE CASE outcome = "ok" -> [t EXCEPT !.termios = "raw", !.opened = TRUE]
           [] outcome = "SetNonblock fails" -> ttyClose([t EXCEPT !.termios = "raw"])
           [] OTHER -> t

EnableAlt(t) ==
    IF ~t.opened \/ t.alt \/ ~CanWrite(t) THEN t
    ELSE [Written(t, "ScreenEnableAlt") EXCEPT !.alt = TRUE]

DisableAlt(t) ==
    IF ~t.opened \/ ~t.alt \/ ~CanWrite(t) THEN t
    ELSE [Written(t, "ScreenDisableAlt") EXCEPT !.alt = FALSE]

\* EnableMouse and DisableMouse write their sequence on every call
EnableMouse(t) == IF CanWrite(t) THEN Written(t, "MouseOn") ELSE t
DisableMouse(t) == IF CanWrite(t) THEN Written(t, "MouseOff") ELSE t

HideCursor(t) == IF CanWrite(t) THEN Written(t, "CursorHide") ELSE t
ShowCursor(t) == IF CanWrite(t) THEN Written(t, "CursorShow") ELSE t

TTYOpen(outcome) ==
    /\ UNCHANGED notTTY
    /\ ~ttyFault
    /\ SetTS(ttyOpen(TS, outcome))

TTYClose ==
    /\ UNCHANGED notTTY
    /\ ~ttyFault
    /\ SetTS(ttyClose(TS))

TTYEnableAlt ==
    /\ UNCHANGED notTTY
    /\ ~ttyFault
    /\ Len(out) < MaxOut
    /\ SetTS(EnableAlt(TS))

TTYDisableAlt ==
    /\ UNCHANGED notTTY
    /\ ~ttyFault
    /\ Len(out) < MaxOut
    /\ SetTS(DisableAlt(TS))

TTYHideCursor ==
    /\ UNCHANGED notTTY
    /\ ~ttyFault
    /\ Len(out) < MaxOut
    /\ SetTS(HideCursor(TS))

TTYShowCursor ==
    /\ UNCHANGED notTTY
    /\ ~ttyFault
    /\ Len(out) < MaxOut
    /\ SetTS(ShowCursor(TS))

TTYEnableMouse ==
    /\ UNCHANGED notTTY
    /\ ~ttyFault
    /\ Len(out) < MaxOut
    /\ SetTS(EnableMouse(TS))

TTYDisableMouse ==
    /\ UNCHANGED notTTY
    /\ ~ttyFault
    /\ Len(out) < MaxOut
    /\ SetTS(DisableMouse(TS))

NextTTY ==
    \/ \E outcome \in OpenOutcomes : TTYOpen(outcome)
    \/ TTYClose
    \/ TTYEnableAlt
    \/ TTYDisableAlt
    \/ TTYHideCursor
    \/ TTYShowCursor
    \/ TTYEnableMouse
    \/ TTYDisableMouse

SpecTTY == Init /\ [][NextTTY]_vars

\* C3: Close on a device that was never opened does nothing; after Open the
\* first Close writes the saved discipline back, and no later Close writes
\* it again, changes the device or faults.
C3_CloseOnceThenNoOp ==
    /\ restores <= 1
    /\ ~ttyFault

(***************************************************************************)
(* The rune decoder: the body of the loop of the input task.  Runes are    *)
(* named by strings; ESC is "\x1b", ETX is rune 3 (Ctrl+C).                *)
(***************************************************************************)
ESC == "ESC"
ETX == "ETX"
Runes == {ESC, "[", "A", "~", "j", ETX}
IsLetter(r) == r \in {"A", "j"}

KeyEvent(r) == [kind |-> "key", code |-> <<r>>]
CtrlEvent(code) == [kind |-> "ctrl", code |-> <<ESC>> \o code]

\* one pass of the loop with rune r read
ReadRune(r) ==
    /\ UNCHANGED notDec
    /\ inputPc = "read"
    /\ Len(reads) < MaxRunes
    /\ reads' = Append(reads, r)
    /\ IF r = ESC
       THEN /\ ctrl' = TRUE
            /\ timers' = timers \cup {Len(reads) + 1}
            /\ UNCHANGED <<ctrlCode, delivered, inputPc>>
       ELSE IF ctrl
       THEN IF IsLetter(r)
            THEN /\ ctrl' = FALSE
                 /\ delivered' = Append(delivered, CtrlEvent(Append(ctrlCode, r)))
                 /\ ctrlCode' = <<>>
                 /\ UNCHANGED <<timers, inputPc>>
            ELSE /\ ctrlCode' = Append(ctrlCode, r)
                 /\ UNCHANGED <<ctrl, timers, delivered, inputPc>>
       ELSE IF r = ETX
       THEN /\ inputPc' = "done"
            /\ UNCHANGED <<ctrl, ctrlCode, timers, delivered>>
       ELSE /\ delivered' = Append(delivered, KeyEvent(r))
            /\ UNCHANGED <<ctrl, ctrlCode, timers, inputPc>>

\* the goroutine started for the ESC at position p wakes after 10 ms
TimerFires(p) ==
    /\ UNCHANGED notDec
    /\ p \in timers
    /\ timers' = timers \ {p}
    /\ ctrl' = FALSE
    /\ UNCHANGED <<ctrlCode, reads, delivered, inputPc>>

NextDecoder ==
    \/ \E r \in Runes : ReadRune(r)
    \/ \E p \in 1..MaxRunes : TimerFires(p)

SpecDecoder == Init /\ [][NextDecoder]_vars

\* the last n runes read are the sequence q
ReadsEndWith(q) ==
    /\ Len(reads) >= Len(q)
    /\ SubSeq(reads, Len(reads) - Len(q) + 1, Len(reads)) = q

\* C6: when ESC, '[' and 'A' are read one after the other before the timer
\* of that ESC fires, the three runes deliver exactly one event, the control
\* event ESC '[' 'A', and no key event.
C6_CursorUpIsOneCtrlEvent ==
    [][/\ (ReadRune("[") /\ ReadsEndWith(<<ESC>>) /\ Len(reads) \in timers)
            => delivered' = delivered
       /\ (ReadRune("A") /\ ReadsEndWith(<<ESC, "[">>) /\ (Len(reads) - 1) \in timers)
            => delivered' = Append(delivered, CtrlEvent(<<"[", "A">>))]_vars

\* C7: when the timer of an ESC fires and no rune was read after that ESC,
\* the ESC is delivered to HandleInput as a key event.
C7_BareEscapeIsDelivered ==
    [][\A p \in 1..MaxRunes :
        (TimerFires(p) /\ p = Len(reads))
            => delivered' = Append(delivered, KeyEvent(ESC))]_vars

(***************************************************************************)
(* App.Start.  The device of the App is opened and closed as TTY.Open and  *)
(* TTY.Close of tty.go do it: the alternate screen, the cursor and the     *)
(* mouse reporting are switched around the open and the close of the       *)
(* terminal.                                                               *)
(***************************************************************************)
deviceOpen(t, outcome) ==
    LET t1 == ttyOpen(t, outcome)
    IN  IF outcome = "ok" THEN EnableMouse(HideCursor(EnableAlt(t1))) ELSE t1

deviceClose(t) ==
    IF ~t.opened THEN t
    ELSE ttyClose(DisableMouse(ShowCursor(DisableAlt(t))))

Running == proc = "running"

\* ForceUnlock, first half: TryLock takes the lock when it is free
ForceTry(T, from, unlockPc, to) ==
    /\ Running
    /\ pc[T] = from
    /\ IF mu
       THEN /\ pc' = [pc EXCEPT ![T] = unlockPc]
            /\ UNCHANGED mu
       ELSE /\ mu' = TRUE
            /\ pc' = [pc EXCEPT ![T] = to]
    /\ UNCHANGED <<quit, cancelled, inCont, panicking, proc, ttyVars, ret, loadErr, dirty, notApp>>

\* a.mu.Unlock(): the runtime kills the process when the lock is not held
Unlock(T, from, to) ==
    /\ Running
    /\ pc[T] = from
    /\ IF mu
       THEN /\ mu' = FALSE
            /\ pc' = [pc EXCEPT ![T] = to]
            /\ UNCHANGED proc
       ELSE /\ proc' = "fatal"
            /\ UNCHANGED <<mu, pc>>
    /\ UNCHANGED <<quit, cancelled, inCont, panicking, ttyVars, ret, loadErr, dirty, notApp>>

\* Start registers the signal channel and starts the signal task
MainStart ==
    /\ Running
    /\ pc["main"] = "start"
    /\ pc' = [pc EXCEPT !["main"] = "open", !["sig"] = "wait"]
    /\ UNCHANGED <<mu, quit, cancelled, inCont, panicking, proc, ttyVars, ret, loadErr, dirty, notApp>>

\* a.Open(); on success the loader task and the input task are started
MainOpen(outcome) ==
    /\ Running
    /\ pc["main"] = "open"
    /\ SetTS(deviceOpen(TS, outcome))
    /\ pc' = IF outcome = "ok"
             THEN [pc EXCEPT !["main"] = "lock", !["loader"] = "loading",
                             !["input"] = "read"]
             ELSE [pc EXCEPT !["main"] = "d_cancel"]
    /\ ret' = IF outcome = "ok" THEN ret ELSE "err"
    /\ UNCHANGED <<mu, quit, cancelled, inCont, panicking, proc, loadErr, dirty, notApp>>

MainLock ==
    /\ Running
    /\ pc["main"] = "lock"
    /\ ~mu
    /\ mu' = TRUE
    /\ pc' = [pc EXCEPT !["main"] = "render"]
    /\ UNCHANGED <<quit, cancelled, inCont, panicking, proc, ttyVars, ret, loadErr, dirty, notApp>>

\* a.Opened(): the device was opened, at some time
Opened(t) == t.opened

\* the screen a.screen holds is the Loading view, which has no dirty flag
LoadingShown == ~(pc["loader"] = "done" /\ ~loadErr)

\* a.render(ctx): nothing when the device was never opened; otherwise the
\* Render of the active screen clears its dirty flag and returns or panics
MainRender(outcome) ==
    /\ Running
    /\ pc["main"] = "render"
    /\ IF outcome = "panic"
       THEN /\ panicking' = TRUE
            /\ pc' = [pc EXCEPT !["main"] = "d_force"]
       ELSE /\ pc' = [pc EXCEPT !["main"] = "unlock"]
            /\ UNCHANGED panicking
    /\ dirty' = IF Opened(TS) THEN FALSE ELSE dirty
    /\ UNCHANGED <<mu, quit, cancelled, inCont, proc, ttyVars, ret, loadErr, notApp>>

MainUnlock == Unlock("main", "unlock", "select")

\* the select of the render loop: Start returns once ctx is done
MainSelect ==
    /\ Running
    /\ pc["main"] = "select"
    /\ pc' = [pc EXCEPT !["main"] = IF cancelled THEN "d_force" ELSE "lock"]
    /\ UNCHANGED <<mu, quit, cancelled, inCont, panicking, proc, ttyVars, ret, loadErr, dirty, notApp>>

\* the deferred a.Close() of Start: ForceUnlock, then the device is closed
MainDeferForce == ForceTry("main", "d_force", "d_unlock", "d_tty")
MainDeferUnlock == Unlock("main", "d_unlock", "d_tty")

MainDeferClose ==
    /\ Running
    /\ pc["main"] = "d_tty"
    /\ SetTS(deviceClose(TS))
    /\ panicking' = (panicking \/ deviceClose(TS).ttyFault)
    /\ pc' = [pc EXCEPT !["main"] = "recover"]
    /\ UNCHANGED <<mu, quit, cancelled, inCont, proc, ret, loadErr, dirty, notApp>>

\* the deferred function that recovers a panic of the goroutine of Start
MainRecover ==
    /\ Running
    /\ pc["main"] = "recover"
    /\ panicking' = FALSE
    /\ pc' = [pc EXCEPT !["main"] = IF panicking THEN "sd_force" ELSE "d_cancel"]
    /\ UNCHANGED <<mu, quit, cancelled, inCont, proc, ttyVars, ret, loadErr, dirty, notApp>>

\* the deferred cancel(); Start has returned, with the error of a.Open or
\* with nil (the render loop returns nil, and so does a recovered panic)
MainReturn ==
    /\ Running
    /\ pc["main"] = "d_cancel"
    /\ cancelled' = TRUE
    /\ proc' = "exited"
    /\ pc' = [pc EXCEPT !["main"] = "done"]
    /\ ret' = IF ret = "none" THEN "nil" ELSE ret
    /\ UNCHANGED <<mu, quit, inCont, panicking, ttyVars, loadErr, dirty, notApp>>

(***************************************************************************)
(* The shutdown sequence of the signal task, of the loader task on failure *)
(* and of the recovering function: ForceUnlock, quit = true, cancel(),     *)
(* a.Close().                                                              *)
(***************************************************************************)
Shutters == {"main", "sig", "loader"}

SdForce(T) == ForceTry(T, "sd_force", "sd_unlock", "sd_quit")
SdUnlock(T) == Unlock(T, "sd_unlock", "sd_quit")

SdQuit(T) ==
    /\ Running
    /\ pc[T] = "sd_quit"
    /\ quit' = TRUE
    /\ pc' = [pc EXCEPT ![T] = "sd_cancel"]
    /\ UNCHANGED <<mu, cancelled, inCont, panicking, proc, ttyVars, ret, loadErr, dirty, notApp>>

SdCancel(T) ==
    /\ Running
    /\ pc[T] = "sd_cancel"
    /\ cancelled' = TRUE
    /\ pc' = [pc EXCEPT ![T] = "sd_cforce"]
    /\ UNCHANGED <<mu, quit, inCont, panicking, proc, ttyVars, ret, loadErr, dirty, notApp>>

SdCloseForce(T) == ForceTry(T, "sd_cforce", "sd_cunlock", "sd_ctty")
SdCloseUnlock(T) == Unlock(T, "sd_cunlock", "sd_ctty")

\* tty.Close() of the sequence.  A panic of it leaves Start when the task
\* is the recovering function, and kills the process in another goroutine.
SdCloseTTY(T) ==
    /\ Running
    /\ pc[T] = "sd_ctty"
    /\ SetTS(deviceClose(TS))
    /\ IF deviceClose(TS).ttyFault
       THEN /\ proc' = IF T = "main" THEN "exited" ELSE "fatal"
            /\ pc' = [pc EXCEPT ![T] = "done"]
       ELSE /\ pc' = [pc EXCEPT ![T] = IF T = "main" THEN "d_cancel" ELSE "done"]
            /\ UNCHANGED proc
    /\ UNCHANGED <<mu, quit, cancelled, inCont, panicking, ret, loadErr, dirty, notApp>>

\* the process receives an interrupt signal
Signal ==
    /\ Running
    /\ pc["sig"] = "wait"
    /\ pc' = [pc EXCEPT !["sig"] = "sd_force"]
    /\ UNCHANGED <<mu, quit, cancelled, inCont, panicking, proc, ttyVars, ret, loadErr, dirty, notApp>>

\* a.ShowLoading(ctx) returns: the catalog is loaded and a new Selection
\* view (with its dirty flag set) is the screen, or the load failed
LoaderReturns(ok) ==
    /\ Running
    /\ pc["loader"] = "loading"
    /\ pc' = [pc EXCEPT !["loader"] = IF ok THEN "done" ELSE "sd_force"]
    /\ loadErr' = ~ok
    /\ dirty' = ok
    /\ UNCHANGED <<mu, quit, cancelled, inCont, panicking, proc, ttyVars, ret, notApp>>

(***************************************************************************)
(* The input task.                                                         *)
(***************************************************************************)
\* the loop test, then a.tty.Rune() returns
InRead ==
    /\ Running
    /\ pc["input"] = "read"
    /\ pc' = [pc EXCEPT !["input"] = IF quit THEN "done" ELSE "lock"]
    /\ UNCHANGED <<mu, quit, cancelled, inCont, panicking, proc, ttyVars, ret, loadErr, dirty, notApp>>

InLock ==
    /\ Running
    /\ pc["input"] = "lock"
    /\ ~mu
    /\ mu' = TRUE
    /\ pc' = [pc EXCEPT !["input"] = "body"]
    /\ UNCHANGED <<quit, cancelled, inCont, panicking, proc, ttyVars, ret, loadErr, dirty, notApp>>

\* "continue": an ESC or a rune of a sequence; "handled": a handler returned
\* true; "return": a read error, Ctrl+C or a handler that returned false or
\* an error; "panic": a handler of the screen panicked
BodyOutcomes == {"continue", "handled", "return", "panic"}

InBody(o) ==
    /\ Running
    /\ pc["input"] = "body"
    /\ IF o = "panic"
       THEN /\ proc' = "fatal"
            /\ UNCHANGED <<pc, inCont>>
       ELSE /\ inCont' = o
            /\ pc' = [pc EXCEPT !["input"] = "unlock"]
            /\ UNCHANGED proc
    /\ dirty' = (dirty \/ (o \in {"handled", "return"} /\ ~LoadingShown))
    /\ UNCHANGED <<mu, quit, cancelled, panicking, ttyVars, ret, loadErr, notApp>>

InUnlock ==
    Unlock("input", "unlock",
           IF inCont = "return" \/ (inCont = "handled" /\ cancelled)
           THEN "done" ELSE "read")

NextApp ==
    \/ MainStart
    \/ \E outcome \in {"ok", "ioctl fails"} : MainOpen(outcome)
    \/ MainLock
    \/ \E outcome \in {"ok", "panic"} : MainRender(outcome)
    \/ MainUnlock
    \/ MainSelect
    \/ MainDeferForce
    \/ MainDeferUnlock
    \/ MainDeferClose
    \/ MainRecover
    \/ MainReturn
    \/ \E T \in Shutters : SdForce(T)
    \/ \E T \in Shutters : SdUnlock(T)
    \/ \E T \in Shutters : SdQuit(T)
    \/ \E T \in Shutters : SdCancel(T)
    \/ \E T \in Shutters : SdCloseForce(T)
    \/ \E T \in Shutters : SdCloseUnlock(T)
    \/ \E T \in Shutters : SdCloseTTY(T)
    \/ Signal
    \/ \E ok \in BOOLEAN : LoaderReturns(ok)
    \/ InRead
    \/ InLock
    \/ \E o \in BodyOutcomes : InBody(o)
    \/ InUnlock

SpecApp == Init /\ [][NextApp]_vars

\* the steps of the goroutine of Start
MainStep ==
    \/ MainStart
    \/ \E outcome \in {"ok", "ioctl fails"} : MainOpen(outcome)
    \/ MainLock
    \/ \E outcome \in {"ok", "panic"} : MainRender(outcome)
    \/ MainUnlock
    \/ MainSelect
    \/ MainDeferForce
    \/ MainDeferUnlock
    \/ MainDeferClose
    \/ MainRecover
    \/ MainReturn

\* the steps of a shutdown sequence run by T
SdStep(T) ==
    \/ SdForce(T)
    \/ SdUnlock(T)
    \/ SdQuit(T)
    \/ SdCancel(T)
    \/ SdCloseForce(T)
    \/ SdCloseUnlock(T)
    \/ SdCloseTTY(T)

\* the steps of the input task once a.tty.Rune() has returned
InputStep ==
    \/ InLock
    \/ \E o \in BodyOutcomes : InBody(o)
    \/ InUnlock

\* every goroutine that can run is scheduled; the signal and the next rune
\* come from outside and may never come
FairSpecApp ==
    /\ SpecApp
    /\ WF_vars(MainStep)
    /\ \A T \in Shutters : WF_vars(SdStep(T))
    /\ WF_vars(\E ok \in BOOLEAN : LoaderReturns(ok))
    /\ WF_vars(InputStep)

\* C2: whenever Start has finished or the process has terminated, the
\* terminal is back in its saved discipline and has left the alternate screen.
C2_TerminalRestoredAtExit ==
    proc # "running" => (termios = "saved" /\ ~alt)

(***************************************************************************)
(* The three screens as a machine: the loader, and the handlers of the     *)
(* screen that a.screen holds.  The subscriptions of the Display view      *)
(* deliver nothing here; its stream tasks are the subject of SpecDisplay.  *)
(***************************************************************************)
\* a.ShowLoading loads the catalog and shows the Selection view
LoadSucceeds ==
    /\ UNCHANGED notScr
    /\ ~scrFault
    /\ load = "loading"
    /\ load' = "ok"
    /\ cs' = NewChooseLogsScreen(Catalog, selected)
    /\ active' = "Selection"
    /\ fresh' = FALSE
    /\ rewrote' = FALSE
    /\ UNCHANGED <<selected, dsp, scrFault>>

\* a.ShowLoading returns an error: the screen is not replaced
LoadFails ==
    /\ UNCHANGED notScr
    /\ ~scrFault
    /\ load = "loading"
    /\ load' = "failed"
    /\ UNCHANGED <<active, selected, cs, dsp, scrFault, fresh, rewrote>>

ChooseKeys == {"j", "k", "l", "h", " ", "/", "r", "a", "b", CR, DEL}
\* the runes the operator puts into a filter, and the keys of the filter mode
FilterRunes == {"a", "b"}
FilterKeys == FilterRunes \cup {CR, DEL}
\* the control sequences and the mouse codes that reach the Selection view
ChooseCtrls == {"CursorUp", "CursorDown", "other"}
ChooseMouseCodes == {"LeftClick", "other"}

LoadingHandleInput(r) ==
    /\ UNCHANGED notScr
    /\ ~scrFault
    /\ active = "Loading"
    /\ UNCHANGED scrVars

LoadingHandleCtrl(code) ==
    /\ UNCHANGED notScr
    /\ ~scrFault
    /\ active = "Loading"
    /\ UNCHANGED scrVars

LoadingHandleMouse(code, y) ==
    /\ UNCHANGED notScr
    /\ ~scrFault
    /\ active = "Loading"
    /\ UNCHANGED scrVars

\* LoadingScreen.Render clears the screen and writes its text on every call
LoadingRender ==
    /\ UNCHANGED notScr
    /\ ~scrFault
    /\ active = "Loading"
    /\ fresh' = TRUE
    /\ rewrote' = fresh
    /\ UNCHANGED <<active, load, selected, cs, dsp, scrFault>>

\* what a handler of the Selection view leaves behind; the callback stores
\* the chosen list in a.selected and shows a new Display view of it, and
\* the Selection view is dropped.  NewDisplayLogScreen panics on logs[0]
\* when the list is empty.
ChooseHandled(res) ==
    /\ Len(res.c.filter) <= MaxFilter
    /\ \A i \in 1..Len(res.c.filter) : res.c.filter[i] \in FilterRunes
    /\ res.c.index >= -MaxBelow
    /\ IF res.confirm /\ res.c.selected = <<>>
       THEN /\ selected' = res.c.selected
            /\ cs' = res.c
            /\ scrFault' = TRUE
            /\ fresh' = (fresh /\ res.c = cs)
            /\ UNCHANGED <<dsp, active, rewrote>>
       ELSE IF res.confirm
       THEN /\ selected' = res.c.selected
            /\ dsp' = NewDisplayLogScreen(res.c.selected)
            /\ active' = "Display"
            /\ cs' = NoChoose
            /\ scrFault' = res.fault
            /\ fresh' = FALSE
            /\ rewrote' = FALSE
       ELSE /\ cs' = res.c
            /\ scrFault' = res.fault
            /\ fresh' = (fresh /\ res.c = cs)
            /\ UNCHANGED <<selected, dsp, active, rewrote>>
    /\ UNCHANGED load

ChooseHandleInput(r) ==
    /\ UNCHANGED notScr
    /\ ~scrFault
    /\ active = "Selection"
    /\ cs.mode = 1 => r \in FilterKeys
    /\ ChooseHandled(chooseInput(cs, r))

ChooseHandleCtrl(code) ==
    /\ UNCHANGED notScr
    /\ ~scrFault
    /\ active = "Selection"
    /\ ChooseHandled(chooseCtrl(cs, code))

ChooseHandleMouse(code, y) ==
    /\ UNCHANGED notScr
    /\ ~scrFault
    /\ active = "Selection"
    /\ ChooseHandled(chooseMouse(cs, code, y))

ChooseRender ==
    /\ UNCHANGED notScr
    /\ ~scrFault
    /\ active = "Selection"
    /\ cs' = chooseRender(cs).c
    /\ scrFault' = chooseRender(cs).fault
    /\ fresh' = ~chooseRender(cs).fault
    /\ rewrote' = (fresh /\ cs.changed)
    /\ UNCHANGED <<active, load, selected, dsp>>

DisplayHandleInput(r) ==
    /\ UNCHANGED notScr
    /\ ~scrFault
    /\ active = "Display"
    /\ dsp' = KeyEffect([dsp EXCEPT !.changed[dsp.log] = TRUE], r)
    /\ UNCHANGED <<active, load, selected, cs, scrFault, fresh, rewrote>>

\* rune 127 in the Display view: s.back shows a new Selection view and the
\* Display view is dropped
DisplayBack ==
    /\ UNCHANGED notScr
    /\ ~scrFault
    /\ active = "Display"
    /\ dsp' = DisplayZero
    /\ cs' = NewChooseLogsScreen(Catalog, selected)
    /\ active' = "Selection"
    /\ fresh' = FALSE
    /\ rewrote' = FALSE
    /\ UNCHANGED <<load, selected, scrFault>>

DisplayHandleCtrl(code) ==
    /\ UNCHANGED notScr
    /\ ~scrFault
    /\ active = "Display"
    /\ dsp' = CtrlEffect(dsp, code)
    /\ UNCHANGED <<active, load, selected, cs, scrFault, fresh, rewrote>>

DisplayHandleMouse(code, y) ==
    /\ UNCHANGED notScr
    /\ ~scrFault
    /\ active = "Display"
    /\ dsp' = MouseEffect(dsp, code, y)
    /\ UNCHANGED <<active, load, selected, cs, scrFault, fresh, rewrote>>

NextScreens ==
    \/ LoadSucceeds
    \/ LoadFails
    \/ \E r \in ChooseKeys : LoadingHandleInput(r)
    \/ \E code \in ChooseCtrls : LoadingHandleCtrl(code)
    \/ \E code \in ChooseMouseCodes, y \in 1..ChooseRows : LoadingHandleMouse(code, y)
    \/ LoadingRender
    \/ \E r \in ChooseKeys : ChooseHandleInput(r)
    \/ \E code \in ChooseCtrls : ChooseHandleCtrl(code)
    \/ \E code \in ChooseMouseCodes, y \in 1..ChooseRows : ChooseHandleMouse(code, y)
    \/ ChooseRender
    \/ \E r \in Keys : DisplayHandleInput(r)
    \/ DisplayBack
    \/ \E code \in Ctrls : DisplayHandleCtrl(code)
    \/ \E code \in MouseCodes, y \in 1..ChooseRows : DisplayHandleMouse(code, y)

SpecScreens == Init /\ [][NextScreens]_vars

(***************************************************************************)
(* One call of GetLogGroups with its fetch tasks, one per profile.  The    *)
(* tasks share m and logGroups without a lock; their reads and writes are  *)
(* steps of their own, so that every order of them is a behaviour.         *)
(***************************************************************************)
Fetching == fetched.st = "none"

\* the task goes on to the next log group of its answer, or ends
Advance(p) ==
    /\ pos' = [pos EXCEPT ![p] = pos[p] + 1]
    /\ fpc' = [fpc EXCEPT ![p] = IF pos[p] < Len(output[p]) THEN "check" ELSE "done"]

\* client.DescribeLogGroups returns an answer without a next token, or fails
FetchDescribe(p, page, ok) ==
    /\ UNCHANGED notFetch
    /\ Fetching
    /\ fpc[p] = "call"
    /\ IF ok
       THEN /\ output' = [output EXCEPT ![p] = page]
            /\ fpc' = [fpc EXCEPT ![p] = IF page = <<>> THEN "done" ELSE "check"]
            /\ UNCHANGED errs
       ELSE /\ errs' = errs \cup {p}
            /\ fpc' = [fpc EXCEPT ![p] = "done"]
            /\ UNCHANGED output
    /\ UNCHANGED <<m, logGroups, pos, hdr, fetched>>

\* the test of m for the ARN of the log group
FetchCheck(p) ==
    /\ UNCHANGED notFetch
    /\ Fetching
    /\ fpc[p] = "check"
    /\ IF output[p][pos[p]] \in m
       THEN Advance(p)
       ELSE /\ fpc' = [fpc EXCEPT ![p] = "insert"]
            /\ UNCHANGED pos
    /\ UNCHANGED <<m, logGroups, errs, output, hdr, fetched>>

\* the write of m; the runtime may stop the process when it finds another
\* task between its read and its write of the same map
FetchInsert(p, caught) ==
    /\ UNCHANGED notFetch
    /\ Fetching
    /\ fpc[p] = "insert"
    /\ caught => \E q \in Profiles \ {p} : fpc[q] = "insert"
    /\ IF caught
       THEN /\ fetched' = [st |-> "fatal", list |-> <<>>]
            /\ UNCHANGED <<m, fpc>>
       ELSE /\ m' = m \cup {output[p][pos[p]]}
            /\ fpc' = [fpc EXCEPT ![p] = "read"]
            /\ UNCHANGED fetched
    /\ UNCHANGED <<logGroups, errs, output, pos, hdr>>

\* append reads the slice
FetchRead(p) ==
    /\ UNCHANGED notFetch
    /\ Fetching
    /\ fpc[p] = "read"
    /\ hdr' = [hdr EXCEPT ![p] = logGroups]
    /\ fpc' = [fpc EXCEPT ![p] = "write"]
    /\ UNCHANGED <<m, logGroups, errs, output, pos, fetched>>

\* the result of append is stored in logGroups
FetchWrite(p) ==
    /\ UNCHANGED notFetch
    /\ Fetching
    /\ fpc[p] = "write"
    /\ logGroups' = Append(hdr[p], output[p][pos[p]])
    /\ hdr' = [hdr EXCEPT ![p] = <<>>]
    /\ Advance(p)
    /\ UNCHANGED <<m, errs, output, fetched>>

\* wg.Wait() returns; the result is sorted and returned
GetLogGroups ==
    /\ UNCHANGED notFetch
    /\ Fetching
    /\ \A p \in Profiles : fpc[p] = "done"
    /\ fetched' = IF Len(logGroups) = 0
                  THEN [st |-> "error", list |-> <<>>]
                  ELSE [st |-> "ok", list |-> SortSlice(logGroups)]
    /\ UNCHANGED <<m, logGroups, errs, fpc, output, pos, hdr>>

NextFetch ==
    \/ \E p \in Profiles, page \in Pages, ok \in BOOLEAN : FetchDescribe(p, page, ok)
    \/ \E p \in Profiles : FetchCheck(p)
    \/ \E p \in Profiles, caught \in BOOLEAN : FetchInsert(p, caught)
    \/ \E p \in Profiles : FetchRead(p)
    \/ \E p \in Profiles : FetchWrite(p)
    \/ GetLogGroups

SpecFetch == Init /\ [][NextFetch]_vars

(***************************************************************************)
(* Properties of the Display view.                                         *)
(***************************************************************************)
\* the last n events received from log group l, in arrival order
LastReceived(l, n) == [i \in 1..n |-> recv[l] - n + i]

\* C1: whenever s.rw is released, every buffer holds at most MaxEvents events
\* and is exactly the last min(n, MaxEvents) of the n events received from its
\* subscription, in arrival order.
C1_BufferIsLastReceived ==
    \A l \in Logs :
        /\ Len(buffers[l]) <= MaxEvents
        /\ buffers[l] = LastReceived(l, Min(recv[l], MaxEvents))

\* a buffer that has evicted: more than MaxEvents events were received
C1_Witness ==
    \E l \in Logs : recv[l] > MaxEvents /\ Len(buffers[l]) = MaxEvents

\* C4: the cursor of every registered session is -1 or an index of its
\* buffer, and Render never indexes or slices a buffer out of range.
C4_CursorInRange ==
    /\ \A l \in streams : index[l] = -1 \/ (0 <= index[l] /\ index[l] < Len(buffers[l]))
    /\ ui # "panicRender"

\* C5: after a Render of the foreground log group that finds it live, in
\* stream view and in detail view, the cursor is on the newest event and the
\* offset is max(0, len(buffer) - 1 - (rows - 2)).
C5_LivePinnedAfterRender ==
    [][(Render /\ ui' = "run" /\ live'[log'])
        => /\ index'[log'] = Len(buffers'[log']) - 1
           /\ offset'[log'] = Max(0, Len(buffers'[log']) - 1 - (TermRows - 2))]_vars

\* C8: when the subscription of a log group cannot be opened, its task has
\* exited without holding s.rw and without a session entry, and neither the
\* render loop nor the input task waits for a lock that is never released.
C8_FailureIsIsolated ==
    \A l \in Logs :
        taskPc[l] = "failed"
            => /\ rw # l
               /\ l \notin streams
               /\ ui \notin {"blockedRender", "blockedInput"}

\* C9: once backspace has been handled, no subscription of the session is
\* open, whenever its task opened it.
C9_BackClosesEveryStream ==
    screen = "Selection" => \A l \in Logs : streamState[l] # "open"

\* C10: after the Display view is torn down by backspace, every stream task
\* eventually leaves its receive loop.
C10_TasksEndAfterBack ==
    (screen = "Selection") ~> (\A l \in Logs : taskPc[l] \in {"done", "failed"})

\* C11: once the context of Start is cancelled, every stream task eventually
\* has terminated and no subscription is left open.
C11_TasksEndAfterCancel ==
    ctxDone ~> (\A l \in Logs : /\ taskPc[l] \in {"done", "failed"}
                                /\ streamState[l] # "open")

C20_ClickSelectsRow ==
    (UIRuns /\ rw = 0 /\ BufLen(DS) > 0)
        => /\ view[log] = viewModeStream =>
                \A y \in 2..TermRows :
                    LET target == Max(0, Min(offset[log] + y - 2, BufLen(DS) - 1))
                        clicked == MouseEffect(DS, "LeftClick", y)
                        shown == RenderBody([clicked EXCEPT !.changed[log] = FALSE])
                    IN  /\ clicked.index[log] = target
                        /\ ~shown.fault
                        /\ shown.d.index[log] = target
                        /\ index[log] = target => shown.d.view[log] = viewModeAlt
           /\ view[log] = viewModeAlt =>
                RenderBody(KeyEffect(DS, " ")).d.view[log] = viewModeStream

(***************************************************************************)
(* Properties of App.Start.                                                *)
(***************************************************************************)
\* C12: once the input task has ended because a handler returned
\* handled = false or an error, the driving loop stops: Start eventually
\* returns, or at least the process ends.
C12_HandledFalseStopsStart ==
    (pc["input"] = "done" /\ inCont = "return") ~> (proc # "running")

(***************************************************************************)
(* Properties of the three screens.                                        *)
(***************************************************************************)
\* C13: a.screen is always the Loading, the Selection or the Display view,
\* and it changes only when the load succeeds (Loading to Selection), when
\* Enter confirms a chosen list that is not empty (Selection to Display) and
\* when backspace is pressed in the Display view (Display to Selection).
\* Enter with nothing chosen changes neither the screen nor the chosen list,
\* and no input to the Loading view changes the screen.
C13_ScreenEdges ==
    [][/\ active' \in {"Loading", "Selection", "Display"}
       /\ active' # active =>
            \/ active = "Loading" /\ active' = "Selection" /\ LoadSucceeds
            \/ /\ active = "Selection" /\ active' = "Display"
               /\ ChooseHandleInput(CR) /\ cs.mode = 0 /\ cs.selected # <<>>
            \/ active = "Display" /\ active' = "Selection" /\ DisplayBack
       /\ (ChooseHandleInput(CR) /\ cs.mode = 0 /\ cs.selected = <<>>)
            => active' = active /\ cs'.selected = cs.selected /\ ~scrFault'
       /\ (active = "Loading" /\ ~LoadSucceeds) => active' = "Loading"]_vars

\* the Selection view is shown again after a confirm and a back
C13_Witness == active = "Selection" /\ load = "ok" /\ Len(selected) > 0

\* C14: the Display view that a confirm creates has the chosen list as its
\* session list and the first chosen log group in the foreground; the
\* session list stays as it is while the view is shown, and the Selection
\* view that backspace shows has that list as its chosen list.
C14_ConfirmAndBackKeepSelection ==
    [][/\ (active = "Selection" /\ active' = "Display")
            => /\ cs.selected # <<>>
               /\ dsp'.logs = cs.selected
               /\ dsp'.log = cs.selected[1]
       /\ (active = "Display" /\ active' = "Display") => dsp'.logs = dsp.logs
       /\ (active = "Display" /\ active' = "Selection") => cs'.selected = dsp.logs]_vars

\* the Selection view just shown by backspace, with two log groups chosen
C14_Witness ==
    /\ active = "Selection"
    /\ Len(selected) = 2
    /\ cs = NewChooseLogsScreen(Catalog, selected)

RECURSIVE NextTimes(_, _)
\* the Display view after k presses of the 'l' key
NextTimes(d, k) == IF k = 0 THEN d ELSE NextTimes(KeyEffect(d, "l"), k - 1)

\* C15: in the Display view the foreground is a member of the session list;
\* 'l' (next) moves it to the successor and wraps from the last to the
\* first, 'h' (prev) moves it to the predecessor and wraps from the first
\* to the last, each undoes the other, and as many presses of 'l' as the
\* list is long bring the foreground back.
C15_NextPrevCycle ==
    active = "Display" =>
        LET n == Len(dsp.logs)
            p == LogPos(dsp)
        IN  /\ \E i \in 1..n : dsp.logs[i] = dsp.log
            /\ KeyEffect(dsp, "l").log = dsp.logs[((p + 1) % n) + 1]
            /\ KeyEffect(dsp, "h").log = dsp.logs[((p + n - 1) % n) + 1]
            /\ KeyEffect(KeyEffect(dsp, "l"), "h").log = dsp.log
            /\ KeyEffect(KeyEffect(dsp, "h"), "l").log = dsp.log
            /\ NextTimes(dsp, n).log = dsp.log

\* a session of three log groups with the last one brought to the foreground
C15_Witness ==
    /\ active = "Display"
    /\ Len(dsp.logs) = 3
    /\ dsp.log = dsp.logs[3]
    /\ dsp.changed[dsp.log]

\* C16: in the Selection view, two presses of space on the same highlighted
\* log group leave the chosen list as it was, in membership and in order.
C16_ToggleTwiceRestores ==
    (active = "Selection" /\ cs.mode = 0 /\ InFiltered(cs))
        => chooseInput(chooseInput(cs, " ").c, " ").c.selected = cs.selected

\* C17: in the Selection view, when the filter string is empty the filtered
\* view is the whole catalog in catalog order.
C17_EmptyFilterShowsCatalog ==
    (active = "Selection" /\ cs.filter = <<>>) => cs.filtered = cs.logs

\* C18: in the Selection view 'j' on the last row of the filtered view goes
\* to row 0 and 'k' on row 0 goes to the last row, and every repaint shows
\* the highlighted row: offset <= index < offset + (rows - 3).
C18_CursorWrapsAndStaysVisible ==
    [][/\ (ChooseHandleInput("j") /\ cs.mode = 0 /\ cs.filtered # <<>>
            /\ cs.index = Len(cs.filtered) - 1) => cs'.index = 0
       /\ (ChooseHandleInput("k") /\ cs.mode = 0 /\ cs.filtered # <<>>
            /\ cs.index = 0) => cs'.index = Len(cs.filtered) - 1
       /\ (ChooseRender /\ cs.changed /\ cs.filtered # <<>>)
            => /\ ~scrFault'
               /\ cs'.offset <= cs'.index
               /\ cs'.index < cs'.offset + (ChooseRows - 3)]_vars

(***************************************************************************)
(* Properties of the mouse reporting, the dirty flags and the frames of    *)
(* the Display view, checked under SpecDisplay.                            *)
(***************************************************************************)

\* C21: mouse reporting is off exactly while the frame on the terminal is
\* the detail view: a painted frame of the Display view (the dirty flag of
\* the foreground is clear) has the mouse off if and only if the foreground
\* is in the detail view, and the Selection view is shown with the mouse on.
C21_MouseOffExactlyInDetail ==
    /\ (screen = "Display" /\ ui = "run" /\ ~changed[log] /\ BufLen(DS) > 0)
          => (mouse <=> view[log] # viewModeAlt)
    /\ screen = "Selection" => mouse

(***************************************************************************)
(* Properties of the terminal device, checked under SpecTTY.               *)
(***************************************************************************)

\* the sequences of one toggle, in the order they were written
Toggled(on, off) == SelectSeq(out, LAMBDA s : s \in {on, off})

\* C22: EnableAlt/DisableAlt, EnableMouse/DisableMouse and HideCursor/
\* ShowCursor write their sequence only when the call changes the flag: the
\* terminal never receives the same sequence of one toggle twice in a row.
C22_TogglesWriteOnlyOnChange ==
    \A pair \in { <<"ScreenEnableAlt", "ScreenDisableAlt">>,
                  <<"MouseOn", "MouseOff">>,
                  <<"CursorHide", "CursorShow">> } :
        LET w == Toggled(pair[1], pair[2])
        IN  \A i \in 1..(Len(w) - 1) : w[i] # w[i + 1]

(***************************************************************************)
(* Properties of the frames of the Loading and the Selection view, checked *)
(* under SpecScreens.                                                      *)
(***************************************************************************)

\* C23: a render tick repaints if and only if the view changed since its
\* previous frame: no Render writes to the device when nothing changed the
\* view since the frame before, and a view that a handler changed after its
\* last frame is marked for the repaint of the next tick.
C23_RepaintIffChanged ==
    /\ ~rewrote
    /\ (active = "Selection" /\ ~scrFault /\ ~fresh) => cs.changed

(***************************************************************************)
(* Properties of App.Start, checked under SpecApp.                         *)
(***************************************************************************)

\* C24: when the load of the catalog failed, what Start returns is a non-nil
\* error; when the terminal was opened and the load did not fail, it is nil.
C24_LoadFailureFailsStart ==
    /\ (ret # "none" /\ loadErr) => ret = "err"
    /\ (ret # "none" /\ ~loadErr /\ pc["loader"] # "idle") => ret = "nil"

(***************************************************************************)
(* Properties of GetLogGroups, checked under SpecFetch.                    *)
(***************************************************************************)

\* the log groups that some profile answered
Answered == UNION {{output[p][i] : i \in 1..Len(output[p])} : p \in Profiles}

\* C25: whatever the order of the steps of the fetch tasks, the list that
\* GetLogGroups returns has no log group twice, holds every log group that
\* some profile answered, and is sorted by account id and name; an error is
\* returned only when no profile answered a log group.
C25_MergedCatalog ==
    LET l == fetched.list
    IN  /\ fetched.st = "ok" =>
              /\ \A i, j \in 1..Len(l) : i # j => l[i] # l[j]
              /\ {l[i] : i \in 1..Len(l)} = Answered
              /\ \A i \in 1..(Len(l) - 1) : ~Less(l[i + 1], l[i])
        /\ fetched.st = "error" => Answered = {}

\* C26: the screen a.screen holds is read and written under the app lock
\* only: the loader task does not replace it while the render loop is inside
\* the Render of the screen or the input task inside one of its handlers.
C26_ScreenReplacedUnderLock ==
    [][LoaderReturns(TRUE) => (pc["main"] # "render" /\ pc["input"] # "body")]_vars

(***************************************************************************)
(* Properties of the locks of the Display view, checked under SpecRW.      *)
(***************************************************************************)

\* C27: no stream task holds s.rw while it is suspended: not while it opens
\* its subscription, and not while it waits for the next event.
C27_NoLockWhileSuspended ==
    \A l \in Logs : taskPc[l] \in {"opening", "loop"} => rw # l

\* C28: a frame of the Display view shows the foreground buffer as it is
\* between two critical sections of its stream task: never while a batch is
\* being appended or before its eviction, and never more than MaxEvents
\* events.
C28_FrameIsConsistent ==
    /\ ~frame.partial
    /\ Len(frame.events) <= MaxEvents

\* a frame painted after a batch was appended and the oldest event evicted
C28_Witness ==
    /\ Len(frame.events) = MaxEvents
    /\ frame.events[1] > 1

\* C29: once the context is cancelled and the terminal closed, a render tick
\* does nothing: it leaves the dirty flag of the screen and the device as
\* they are.
C29_RenderAfterCloseIsNoOp ==
    [][((\E outcome \in {"ok", "panic"} : MainRender(outcome))
            /\ cancelled /\ files = "nil")
          => UNCHANGED <<dirty, ttyVars>>]_vars

\* the task is between a.mu.Lock() and a.mu.Unlock()
InCritical(T) ==
    \/ T = "main" /\ pc[T] \in {"render", "unlock"}
    \/ T = "input" /\ pc[T] \in {"body", "unlock"}

\* C30: the app lock keeps its tasks apart, whatever ForceUnlock and Close
\* do: at most one task is inside a critical section, a task that reaches
\* its Unlock finds the lock held, and the lock is held only while a task is
\* inside a critical section (ForceUnlock does not leave it held).
C30_AppLockExcludes ==
    /\ ~(InCritical("main") /\ InCritical("input"))
    /\ \A T \in {"main", "input"} : pc[T] = "unlock" => mu
    /\ (mu /\ proc = "running") => (InCritical("main") \/ InCritical("input"))

\* C31: once the input task has left its loop on Ctrl+C, and once the
\* process has received an interrupt signal, Start eventually returns with
\* the terminal closed.
C31_QuitEndsStart ==
    /\ (pc["input"] = "done" /\ inCont = "return")
          ~> (pc["main"] = "done" /\ files = "nil")
    /\ (pc["sig"] \notin {"idle", "wait"})
          ~> (pc["main"] = "done" /\ files = "nil")

\* C32: while the Selection view is shown, its cursor is inside the filtered
\* list: 0 <= offset <= len(filtered), and 0 <= index < len(filtered) when
\* the list is not empty; and neither the toggle key nor Render has indexed
\* or sliced the list out of range.
C32_SelectionCursorInBounds ==
    active = "Selection" =>
        /\ 0 <= cs.offset /\ cs.offset <= Len(cs.filtered)
        /\ Len(cs.filtered) > 0 => InFiltered(cs)
        /\ ~scrFault

(***************************************************************************)
(* Properties of the decoder, checked under SpecDecoder.                   *)
(***************************************************************************)

\* the runes from the most recent ESC of s to its end
SinceLastEsc(s) ==
    LET k == CHOOSE i \in 1..Len(s) :
                 s[i] = ESC /\ \A j \in (i + 1)..Len(s) : s[j] # ESC
    IN  SubSeq(s, k, Len(s))

\* C33: every control event that is delivered is ESC followed by exactly
\* the runes read since the most recent ESC, up to and with the letter that
\* ends the sequence; nothing of an abandoned sequence is part of it.
C33_CtrlEventIsLastSequence ==
    [][(Len(delivered') > Len(delivered)
            /\ delivered'[Len(delivered')].kind = "ctrl")
          => delivered'[Len(delivered')].code = SinceLastEsc(reads')]_vars

\* the cursor of d is inside the window that Render paints: the events
\* offset .. offset + row - 2 of the buffer
InWindow(d) ==
    /\ 0 <= d.offset[d.log]
    /\ d.offset[d.log] <= d.index[d.log]
    /\ d.index[d.log] <= Min(d.offset[d.log] + d.row - 2, BufLen(d) - 1)

\* C34: in the Display view with events in the buffer, whenever a key moves
\* the cursor up or down by a row or a page, before or after the first
\* Render, live mode is off afterwards and the cursor is inside the window:
\* 0 <= offset <= index <= min(offset + rows - 2, len(buffer) - 1).
C34_CursorStaysInWindow ==
    (UIRuns /\ rw = 0 /\ BufLen(DS) > 0)
        => \A r \in {"j", "k", "J", "K"} :
               LET moved == KeyEffect([DS EXCEPT !.changed[log] = TRUE], r)
               IN  ~moved.live[log] /\ InWindow(moved)

\* C35: while live mode is off for a log group, a change of its buffer (an
\* append by its stream task, with or without the cut to the newest
\* MaxEvents events) leaves the cursor on the same log event, as long as
\* that event is still in the buffer.
C35_AppendKeepsCursorEvent ==
    [][\A l \in Logs :
          (/\ buffers'[l] # buffers[l]
           /\ ~live[l]
           /\ 0 <= index[l] /\ index[l] < Len(buffers[l])
           /\ \E i \in 1..Len(buffers'[l]) :
                  buffers'[l][i] = buffers[l][index[l] + 1])
              => /\ 0 <= index'[l] /\ index'[l] < Len(buffers'[l])
                 /\ buffers'[l][index'[l] + 1] = buffers[l][index[l] + 1]]_vars

====
